---- MODULE Spec2Model ----
(***************************************************************************)
(* Model of src/ft817.js: the FT817 class, a command/response client for   *)
(* the CAT link of a radio.  One session (one FT817 object) is modelled    *)
(* together with its environment: the callers of the four high-level       *)
(* operations, the radio at the other end of the serial port, the          *)
(* ByteLength re-framer piped from the port and the timers of Node's event *)
(* loop.  Every action is one turn of the event loop.                      *)
(*                                                                         *)
(* JavaScript strings are sequences of one-character strings, so that      *)
(* charAt, substring, padStart, parseInt and Buffer.toString('hex') are    *)
(* computed the way the code computes them.                                *)
(***************************************************************************)
EXTENDS Integers, Sequences, FiniteSets, TLC

\* ------------------------------------------------------------------ bounds

\* Number of calls of high-level operations made on the session.
MaxCalls == 2

\* ------------------------------------------------------------ JS strings

HexDigits == <<"0","1","2","3","4","5","6","7","8","9","a","b","c","d","e","f">>

IsDigit(ch) == \E d \in 0..9 : HexDigits[d + 1] = ch

DigitVal(ch) == CHOOSE d \in 0..9 : HexDigits[d + 1] = ch

\* parseInt yields NaN when the string does not begin with a decimal digit.
NaN == -1

\* Number.prototype.toString of a non-negative integer.
RECURSIVE numToString(_)
numToString(n) ==
    IF n < 10 THEN <<HexDigits[n + 1]>>
    ELSE numToString(n \div 10) \o <<HexDigits[(n % 10) + 1]>>

\* Value of a string of decimal digits.
RECURSIVE digitsValue(_)
digitsValue(s) ==
    IF s = <<>> THEN 0
    ELSE 10 * digitsValue(SubSeq(s, 1, Len(s) - 1)) + DigitVal(s[Len(s)])

\* Longest prefix of s made of decimal digits.
RECURSIVE digitPrefix(_)
digitPrefix(s) ==
    IF s = <<>> \/ ~IsDigit(Head(s)) THEN <<>>
    ELSE <<Head(s)>> \o digitPrefix(Tail(s))

\* parseInt(s), radix 10, on a string without sign or blanks.
parseInt(s) ==
    IF digitPrefix(s) = <<>> THEN NaN ELSE digitsValue(digitPrefix(s))

\* String.prototype.padStart(n, ch)
RECURSIVE padStart(_, _, _)
padStart(s, n, ch) == IF Len(s) >= n THEN s ELSE padStart(<<ch>> \o s, n, ch)

\* String.prototype.substring(from, to), zero-based, to exclusive.
substring(s, from, to) ==
    SubSeq(s, from + 1, IF to > Len(s) THEN Len(s) ELSE to)

\* String.prototype.charAt(i), zero-based; "" past the end.
charAt(s, i) == IF i + 1 <= Len(s) THEN <<s[i + 1]>> ELSE <<>>

\* Buffer.prototype.toString('hex')
RECURSIVE toHexString(_)
toHexString(bytes) ==
    IF bytes = <<>> THEN <<>>
    ELSE <<HexDigits[(Head(bytes) \div 16) + 1], HexDigits[(Head(bytes) % 16) + 1]>>
         \o toHexString(Tail(bytes))

\* Buffer.from(array): every element is stored as one byte.
BufferFrom(command) == [i \in 1..Len(command) |-> command[i] % 256]

\* ------------------------------------------------- required helper modules

\* conversions.decToHex: a two-digit decimal string packed as one BCD byte,
\* the tens digit in the high nibble and the units digit in the low nibble.
decToHex(pair) == 16 * DigitVal(pair[1]) + DigitVal(pair[2])

\* conversions.hexToBin is defined on the hex rendering of exactly one byte.
IsHexByte(h) ==
    /\ Len(h) = 2
    /\ \A i \in 1..2 : \E d \in 1..16 : HexDigits[d] = h[i]

HexVal(ch) == (CHOOSE d \in 1..16 : HexDigits[d] = ch) - 1

hexToBin(h) == 16 * HexVal(h[1]) + HexVal(h[2])

\* frequencies.isValidRxFrequency: the receive ranges of the radio, in units
\* of 10 Hz (100 kHz - 56 MHz, 76 - 154 MHz, 420 - 470 MHz).
isValidRxFrequency(n) ==
    \/ n >= 10000 /\ n <= 5600000
    \/ n >= 7600000 /\ n <= 15400000
    \/ n >= 42000000 /\ n <= 47000000

\* modes.getModeNameById: the name of a known mode id; an unknown id passes
\* through unchanged.
getModeNameById(id) ==
    CASE id = <<"0","0">> -> <<"L","S","B">>
      [] id = <<"0","1">> -> <<"U","S","B">>
      [] id = <<"0","2">> -> <<"C","W">>
      [] id = <<"0","3">> -> <<"C","W","R">>
      [] id = <<"0","4">> -> <<"A","M">>
      [] id = <<"0","8">> -> <<"F","M">>
      [] OTHER -> id

\* ------------------------------------------------------------------ values

Calls == 1..MaxCalls

\* A frequency argument: a number (NaN included) or a string.
Num(n) == [kind |-> "number", n |-> n, s |-> <<>>]
Str(s) == [kind |-> "string", n |-> 0, s |-> s]

\* Arguments the callers pass to setFrequency: the lowest receivable
\* frequency, the default as a number and as the default string, a frequency
\* between two receive ranges, and a string that is no number.
FreqInputs ==
    { Num(10000), Num(14575000), Num(6000000),
      Str(<<"1","4","5","7","5","0","0","0">>), Str(<<"a","b","c">>) }

\* Replies the radio sends, by operation.
FreqReplies == { <<20, 87, 80, 0, 3>> }
StatusReplies == { <<0>>, <<143>> }
AckReplies == { <<0>> }

Replies(o) ==
    CASE o = "getFreqAndMode" -> FreqReplies
      [] o = "setFrequency" -> AckReplies
      [] OTHER -> StatusReplies

\* What the promise of executeCommand holds.
NoExchange == [kind |-> "none", hex |-> <<>>]
Pending == [kind |-> "pending", hex |-> <<>>]
NoReply == [kind |-> "false", hex |-> <<>>]
Reply(h) == [kind |-> "hex", hex |-> h]

\* What the promise of a high-level operation holds.
NoResult == [kind |-> "none"]
ReturnedFalse == [kind |-> "false"]
Thrown == [kind |-> "FormatError"]
ReturnedString(s) == [kind |-> "string", value |-> s]

\* --------------------------------------------------------------- the state

VARIABLES
    executableCommand,  \* this.executableCommand; <<>> stands for null
    parserId,           \* the ByteLength piped from the port: the call that made it (0: the constructor)
    parserLen,          \* its length option
    parserBuf,          \* the bytes it has buffered
    listeners,          \* per ByteLength object, the calls with a once('data') listener on it
    portWritten,        \* the frames written to the port, in order
    wire,               \* bytes the radio has sent that have not reached the port yet
    answered,           \* the calls whose frame the radio has answered
    ncalls,             \* number of high-level calls made
    op,                 \* per call, the operation called
    arg,                \* per call, the frequency argument (setFrequency)
    promise,            \* per call, the promise of executeCommand
    timer,              \* per call, whether commandTimeouter is armed
    result,             \* per call, what the high-level operation resolved to
    chunk,              \* per call, the chunk that settled its promise
    dropped,            \* calls whose listener was given a chunk after the promise had settled
    overlapped          \* whether some call of execute ran while an exchange was pending

vars == <<executableCommand, parserId, parserLen, parserBuf, listeners, portWritten,
          wire, answered, ncalls, op, arg, promise, timer, result, chunk, dropped,
          overlapped>>

session == <<executableCommand, parserId, parserLen, parserBuf, listeners, portWritten,
             promise, timer>>

\* The constructor, lines 28-51.
Init ==
    /\ executableCommand = <<>>
    /\ parserId = 0
    /\ parserLen = 1
    /\ parserBuf = <<>>
    /\ listeners = [p \in 0..MaxCalls |-> <<>>]
    /\ portWritten = <<>>
    /\ wire = <<>>
    /\ answered = {}
    /\ ncalls = 0
    /\ op = [c \in Calls |-> "none"]
    /\ arg = [c \in Calls |-> Num(0)]
    /\ promise = [c \in Calls |-> NoExchange]
    /\ timer = [c \in Calls |-> FALSE]
    /\ result = [c \in Calls |-> NoResult]
    /\ chunk = [c \in Calls |-> <<>>]
    /\ dropped = {}
    /\ overlapped = FALSE

\* ------------------------------------------------- the high-level operations

\* setFrequency, lines 128-131: isNaN(frequency), and then parseInt.
IsNaN(frequency) ==
    IF frequency.kind = "number" THEN frequency.n = NaN
    ELSE \E i \in 1..Len(frequency.s) : ~IsDigit(frequency.s[i])

toNumber(frequency) ==
    IF ~IsNaN(frequency) THEN frequency
    ELSE IF frequency.kind = "number" THEN Num(NaN)
    ELSE Num(parseInt(frequency.s))

\* As setFrequencyRejects, with the validity check of line 134 left out.
setFrequencyRejectsNever(frequency) == FALSE

\* setFrequency, line 134: the frequency is not receivable.
setFrequencyRejects(frequency) ==
    LET f == toNumber(frequency)
    IN  ~isValidRxFrequency(IF f.kind = "number" THEN f.n ELSE digitsValue(f.s))

\* String.prototype.padEnd(n, ch)
RECURSIVE padEnd(_, _, _)
padEnd(s, n, ch) == IF Len(s) >= n THEN s ELSE padEnd(s \o <<ch>>, n, ch)

\* As frequencyString, padding on the right instead of the left.
frequencyStringPadEnd(frequency) ==
    LET f == toNumber(frequency)
    IN  padEnd(IF f.kind = "number"
               THEN (IF f.n = NaN THEN <<"N","a","N">> ELSE numToString(f.n))
               ELSE f.s,
               8, "0")

\* setFrequency, lines 136-140: back to a string of at least eight characters.
frequencyString(frequency) ==
    LET f == toNumber(frequency)
    IN  padStart(IF f.kind = "number"
                 THEN (IF f.n = NaN THEN <<"N","a","N">> ELSE numToString(f.n))
                 ELSE f.s,
                 8, "0")

\* decToHex is defined on pairs of decimal digits.
framePairsAreDigits(f) ==
    Len(f) >= 8 /\ \A i \in 1..8 : IsDigit(f[i])

\* As setFrequencyFrame, with the digit pairs in the opposite order.
setFrequencyFrameHzFirst(f) ==
    << decToHex(charAt(f, 6) \o charAt(f, 7)),
       decToHex(charAt(f, 4) \o charAt(f, 5)),
       decToHex(charAt(f, 2) \o charAt(f, 3)),
       decToHex(charAt(f, 0) \o charAt(f, 1)),
       1 >>

\* setFrequency, lines 145-151: the array passed to execute.
setFrequencyFrame(f) ==
    << decToHex(charAt(f, 0) \o charAt(f, 1)),
       decToHex(charAt(f, 2) \o charAt(f, 3)),
       decToHex(charAt(f, 4) \o charAt(f, 5)),
       decToHex(charAt(f, 6) \o charAt(f, 7)),
       1 >>

\* As setFrequencyReturn, with false returned when the exchange gave false.
setFrequencyReturnChecked(frequency, resp) ==
    IF resp.kind # "hex" THEN ReturnedFalse
    ELSE ReturnedString(frequencyString(frequency))

\* setFrequency, line 153: the value returned, whatever the exchange gave.
setFrequencyReturn(frequency, resp) == ReturnedString(frequencyString(frequency))

\* As decodeFreqAndMode, with the kHz digits taken one character early.
decodeFreqAndModeShifted(hex) ==
    LET mode_id == substring(hex, 8, Len(hex))
        freq_full == substring(hex, 0, 8)
    IN  [kind |-> "FreqAndMode",
         frequency |-> freq_full,
         mhzs |-> parseInt(substring(freq_full, 0, 3)),
         khzs |-> parseInt(substring(freq_full, 2, 5)),
         hzs |-> parseInt(substring(freq_full, 6, 8)),
         mode_id |-> mode_id,
         mode_name |-> getModeNameById(mode_id)]

\* getFreqAndMode, lines 171-190: the decoding of the hex string.
decodeFreqAndMode(hex) ==
    LET mode_id == substring(hex, 8, Len(hex))
        freq_full == substring(hex, 0, 8)
    IN  [kind |-> "FreqAndMode",
         frequency |-> freq_full,
         mhzs |-> parseInt(substring(freq_full, 0, 3)),
         khzs |-> parseInt(substring(freq_full, 3, 6)),
         hzs |-> parseInt(substring(freq_full, 6, 8)),
         mode_id |-> mode_id,
         mode_name |-> getModeNameById(mode_id)]

\* As getFreqAndModeReturn, without the check of lines 166-169: substring
\* of false is a TypeError.
getFreqAndModeReturnUnchecked(resp) ==
    IF resp.kind # "hex" THEN Thrown ELSE decodeFreqAndMode(resp.hex)

\* getFreqAndMode, lines 166-190.
getFreqAndModeReturn(resp) ==
    IF resp.kind # "hex" THEN ReturnedFalse ELSE decodeFreqAndMode(resp.hex)

\* As getReceiverStatusReturn, with the S-meter mask one bit too wide.
getReceiverStatusReturnWideMask(resp) ==
    IF resp.kind # "hex" \/ ~IsHexByte(resp.hex) THEN Thrown
    ELSE LET b == hexToBin(resp.hex)
             s == b % 32
         IN  [kind |-> "ReceiverStatus",
              smeter_reading |->
                  IF s <= 9 THEN <<"S">> \o numToString(s)
                  ELSE <<"S","9","+">> \o numToString((s - 9) * 10) \o <<"d","B">>,
              squelched |-> (b \div 128) % 2 = 1]

\* getReceiverStatus, lines 201-219: resp is handed to hexToBin unchecked.
getReceiverStatusReturn(resp) ==
    IF resp.kind # "hex" \/ ~IsHexByte(resp.hex) THEN Thrown
    ELSE LET b == hexToBin(resp.hex)
             s == b % 16
         IN  [kind |-> "ReceiverStatus",
              smeter_reading |->
                  IF s <= 9 THEN <<"S">> \o numToString(s)
                  ELSE <<"S","9","+">> \o numToString((s - 9) * 10) \o <<"d","B">>,
              squelched |-> (b \div 128) % 2 = 1]

\* As getTransmitterStatusReturn, with the PTT bit read without inversion.
getTransmitterStatusReturnPttNotInverted(resp) ==
    IF resp.kind # "hex" \/ ~IsHexByte(resp.hex) THEN Thrown
    ELSE LET b == hexToBin(resp.hex)
         IN  [kind |-> "TransmitterStatus",
              pttActive |-> (b \div 128) % 2 = 1,
              highSWR |-> (b \div 64) % 2 = 1,
              splitModeOn |-> (b \div 32) % 2 = 1]

\* As getTransmitterStatusReturn, with the SWR and split bits read inverted.
getTransmitterStatusReturnFlagsInverted(resp) ==
    IF resp.kind # "hex" \/ ~IsHexByte(resp.hex) THEN Thrown
    ELSE LET b == hexToBin(resp.hex)
         IN  [kind |-> "TransmitterStatus",
              pttActive |-> (b \div 128) % 2 = 0,
              highSWR |-> (b \div 64) % 2 = 0,
              splitModeOn |-> (b \div 32) % 2 = 0]

\* getTransmitterStatus, lines 231-256: resp is handed to hexToBin unchecked.
getTransmitterStatusReturn(resp) ==
    IF resp.kind # "hex" \/ ~IsHexByte(resp.hex) THEN Thrown
    ELSE LET b == hexToBin(resp.hex)
         IN  [kind |-> "TransmitterStatus",
              pttActive |-> (b \div 128) % 2 = 0,
              highSWR |-> (b \div 64) % 2 = 1,
              splitModeOn |-> (b \div 32) % 2 = 1]

\* The continuation of the operation of call c after `await this.execute(...)`.
operationReturn(c, resp) ==
    CASE op[c] = "setFrequency" -> setFrequencyReturn(arg[c], resp)
      [] op[c] = "getFreqAndMode" -> getFreqAndModeReturn(resp)
      [] op[c] = "getReceiverStatus" -> getReceiverStatusReturn(resp)
      [] op[c] = "getTransmitterStatus" -> getTransmitterStatusReturn(resp)
      [] OTHER -> NoResult

\* ------------------------------------------------------------- the exchange

\* As settle, with a later resolve replacing the settled value.
settleOverwrite(p, v) == v

\* resolve(v) of the promise of executeCommand, lines 71-84: a promise
\* settles once, later calls of resolve are ignored.
settle(p, v) == IF p.kind = "pending" THEN v ELSE p

\* As armTimer, with the setTimeout of line 73 left out.
armTimerNever(c) == timer

\* setTimeout(() => resolve(false), 1000), line 73.
armTimer(c) == [timer EXCEPT ![c] = TRUE]

\* this.parser.once('data', ...), line 79: the listener goes on the
\* ByteLength that this.parser names when executeCommand runs.
addListener(p, c) == [listeners EXCEPT ![p] = Append(@, c)]

\* As newByteLength, with the ByteLength already attached kept in place.
sameByteLength(c) == parserId

\* new ByteLength({length: byte_length}), line 60: a fresh object on every
\* call of setResponseLength, named here by the call that made it.
newByteLength(c) == c

\* As execute, with the frame written before setResponseLength has run.
executeWriteBeforeReattach(c, executable_command, response_length) ==
    /\ executableCommand' = BufferFrom(executable_command)
    /\ parserId' = newByteLength(c)
    /\ parserLen' = response_length
    /\ parserBuf' = <<>>
    /\ timer' = armTimer(c)
    /\ portWritten' = Append(portWritten,
           [frame |-> executableCommand', by |-> c, framing |-> parserLen])
    /\ listeners' = addListener(parserId', c)
    /\ promise' = [promise EXCEPT ![c] = Pending]
    /\ overlapped' = (overlapped \/ \E d \in Calls : promise[d].kind = "pending")
    /\ UNCHANGED <<wire, answered, result, chunk, dropped>>

\* As execute, with the frame written before setCommand has run.
executeWriteBeforeSetCommand(c, executable_command, response_length) ==
    /\ executableCommand' = BufferFrom(executable_command)
    /\ parserId' = newByteLength(c)
    /\ parserLen' = response_length
    /\ parserBuf' = <<>>
    /\ timer' = armTimer(c)
    /\ portWritten' = Append(portWritten,
           [frame |-> executableCommand, by |-> c, framing |-> parserLen'])
    /\ listeners' = addListener(parserId', c)
    /\ promise' = [promise EXCEPT ![c] = Pending]
    /\ overlapped' = (overlapped \/ \E d \in Calls : promise[d].kind = "pending")
    /\ UNCHANGED <<wire, answered, result, chunk, dropped>>

\* execute, lines 111-116, with setCommand (91-93), setResponseLength (58-61)
\* and the executor of executeCommand (71-84): one synchronous run.
execute(c, executable_command, response_length) ==
    /\ executableCommand' = BufferFrom(executable_command)
    /\ parserId' = newByteLength(c)
    /\ parserLen' = response_length
    /\ parserBuf' = <<>>
    /\ timer' = armTimer(c)
    /\ portWritten' = Append(portWritten,
           [frame |-> executableCommand', by |-> c, framing |-> parserLen'])
    /\ listeners' = addListener(parserId', c)
    /\ promise' = [promise EXCEPT ![c] = Pending]
    /\ overlapped' = (overlapped \/ \E d \in Calls : promise[d].kind = "pending")
    /\ UNCHANGED <<wire, answered, result, chunk, dropped>>

\* setFrequency(frequency), lines 126-155, up to its await.
SetFrequency(frequency) ==
    /\ ncalls < MaxCalls
    /\ ncalls' = ncalls + 1
    /\ op' = [op EXCEPT ![ncalls'] = "setFrequency"]
    /\ arg' = [arg EXCEPT ![ncalls'] = frequency]
    /\ IF setFrequencyRejects(frequency)
       THEN /\ result' = [result EXCEPT ![ncalls'] = ReturnedFalse]
            /\ UNCHANGED <<session, wire, answered, chunk, dropped, overlapped>>
       ELSE IF ~framePairsAreDigits(frequencyString(frequency))
       THEN /\ result' = [result EXCEPT ![ncalls'] = Thrown]
            /\ UNCHANGED <<session, wire, answered, chunk, dropped, overlapped>>
       ELSE execute(ncalls', setFrequencyFrame(frequencyString(frequency)), 1)

\* getFreqAndMode(), line 164, up to its await.
GetFreqAndMode ==
    /\ ncalls < MaxCalls
    /\ ncalls' = ncalls + 1
    /\ op' = [op EXCEPT ![ncalls'] = "getFreqAndMode"]
    /\ UNCHANGED arg
    /\ execute(ncalls', <<0, 0, 0, 0, 3>>, 5)

\* getReceiverStatus(), line 200, up to its await.
GetReceiverStatus ==
    /\ ncalls < MaxCalls
    /\ ncalls' = ncalls + 1
    /\ op' = [op EXCEPT ![ncalls'] = "getReceiverStatus"]
    /\ UNCHANGED arg
    /\ execute(ncalls', <<0, 0, 0, 0, 231>>, 1)

\* As GetTransmitterStatus, with the opcode of getReceiverStatus.
GetTransmitterStatusReceiverOpcode ==
    /\ ncalls < MaxCalls
    /\ ncalls' = ncalls + 1
    /\ op' = [op EXCEPT ![ncalls'] = "getTransmitterStatus"]
    /\ UNCHANGED arg
    /\ execute(ncalls', <<0, 0, 0, 0, 231>>, 1)

\* getTransmitterStatus(), line 230, up to its await.
GetTransmitterStatus ==
    /\ ncalls < MaxCalls
    /\ ncalls' = ncalls + 1
    /\ op' = [op EXCEPT ![ncalls'] = "getTransmitterStatus"]
    /\ UNCHANGED arg
    /\ execute(ncalls', <<0, 0, 0, 0, 247>>, 1)

\* The operations resume when their promise settles.
resume(newPromise) ==
    [c \in Calls |-> IF newPromise[c] # promise[c] /\ newPromise[c].kind \in {"false", "hex"}
                     THEN operationReturn(c, newPromise[c])
                     ELSE result[c]]

\* The timer callback of line 73 runs; timers of equal delay run in the
\* order in which they were armed.
TimerFire(c) ==
    /\ timer[c]
    /\ \A d \in Calls : d < c => ~timer[d]
    /\ timer' = [timer EXCEPT ![c] = FALSE]
    /\ promise' = [promise EXCEPT ![c] = settle(@, NoReply)]
    /\ result' = resume(promise')
    /\ UNCHANGED <<executableCommand, parserId, parserLen, parserBuf, listeners,
                   portWritten, wire, answered, ncalls, op, arg, chunk, dropped,
                   overlapped>>

\* The radio answers the frame of call c with a reply, of which the first n
\* bytes get through; it answers frames in the order it received them, and
\* a frame it has not answered by then stays without answer.
RadioSends(c, reply, n) ==
    /\ \E i \in 1..Len(portWritten) : portWritten[i].by = c
    /\ \A d \in answered : d < c
    /\ answered' = answered \cup {c}
    /\ wire' = wire \o [i \in 1..n |-> [v |-> reply[i], from |-> c]]
    /\ UNCHANGED <<session, ncalls, op, arg, result, chunk, dropped, overlapped>>

\* A reply gets through whole or is cut after its first byte.
RadioReply(c) ==
    \E reply \in Replies(op[c]) : \E n \in {1, Len(reply)} : RadioSends(c, reply, n)

SetOf(seq) == { seq[i] : i \in 1..Len(seq) }

\* One byte reaches the port and is piped to the attached ByteLength, which
\* emits 'data' when it holds parserLen bytes; the once-listeners of lines
\* 79-82 run: clearInterval(commandTimeouter), resolve(hex).
Data ==
    /\ wire # <<>>
    /\ wire' = Tail(wire)
    /\ LET byte == [v |-> Head(wire).v, from |-> Head(wire).from,
                    late |-> promise[Head(wire).from].kind = "false"]
           buf == Append(parserBuf, byte)
           heard == SetOf(listeners[parserId])
           hex == toHexString([i \in 1..Len(buf) |-> buf[i].v])
       IN  IF Len(buf) < parserLen
           THEN /\ parserBuf' = buf
                /\ UNCHANGED <<listeners, promise, timer, result, chunk, dropped>>
           ELSE /\ parserBuf' = <<>>
                /\ listeners' = [listeners EXCEPT ![parserId] = <<>>]
                /\ timer' = [c \in Calls |-> IF c \in heard THEN FALSE ELSE timer[c]]
                /\ promise' = [c \in Calls |->
                                 IF c \in heard THEN settle(promise[c], Reply(hex))
                                 ELSE promise[c]]
                /\ result' = resume(promise')
                /\ chunk' = [c \in Calls |->
                               IF c \in heard /\ promise'[c] # promise[c] THEN buf
                               ELSE chunk[c]]
                /\ dropped' = dropped \cup {c \in heard : promise[c].kind # "pending"}
    /\ UNCHANGED <<executableCommand, parserId, parserLen, portWritten, answered,
                   ncalls, op, arg, overlapped>>

Next ==
    \/ \E frequency \in FreqInputs : SetFrequency(frequency)
    \/ GetFreqAndMode
    \/ GetReceiverStatus
    \/ GetTransmitterStatus
    \/ \E c \in Calls : TimerFire(c)
    \/ \E c \in Calls : RadioReply(c)
    \/ Data

Spec == Init /\ [][Next]_vars

\* The event loop runs a timer callback that is due.
LiveSpec == Spec /\ \A c \in Calls : WF_vars(TimerFire(c))

\* ------------------------------------------- the encoders and decoders alone

\* Number of frequencies sampled, besides the ends of the receive ranges.
CodecSamples == 400

\* Frequencies handed to setFrequency: the ends of the receive ranges, their
\* neighbours, and samples across 0 .. 47 MHz*10.
CodecFrequencies ==
    { 0, 9999, 10000, 5600000, 5600001, 7599999, 7600000, 14575000, 15400000,
      15400001, 41999999, 42000000, 47000000, 47000001, 99999999 }
    \cup { 10007 + 117649 * k : k \in 0..CodecSamples }

\* Bytes of the 5-byte replies decoded: BCD bytes and bytes with a nibble
\* above 9.
CodecBytes == { 0, 3, 8, 20, 80, 87, 154, 171 }

\* The chunk a re-framer hands over for these bytes, in answer to call c.
chunkOf(c, bytes) ==
    [i \in 1..Len(bytes) |-> [v |-> bytes[i], from |-> c, late |-> FALSE]]

\* One exchange of call 1 on a fresh session, settled by the reply given.
codecExchange(o, frequency, frame, bytes, value) ==
    /\ ncalls' = 1
    /\ op' = [op EXCEPT ![1] = o]
    /\ arg' = [arg EXCEPT ![1] = frequency]
    /\ executableCommand' = BufferFrom(frame)
    /\ chunk' = [chunk EXCEPT ![1] = chunkOf(1, bytes)]
    /\ promise' = [promise EXCEPT ![1] = Reply(toHexString(bytes))]
    /\ result' = [result EXCEPT ![1] = value]
    /\ UNCHANGED <<parserId, parserLen, parserBuf, listeners, portWritten, wire,
                   answered, timer, dropped, overlapped>>

\* The frame setFrequency(f) builds (lines 136-151), read back as the reply
\* of getFreqAndMode (lines 166-190).
CodecRoundTrip ==
    /\ ncalls = 0
    /\ \E f \in CodecFrequencies :
          /\ ~setFrequencyRejects(Num(f))
          /\ LET frame == BufferFrom(setFrequencyFrame(frequencyString(Num(f))))
             IN  codecExchange("roundTrip", Num(f), frame, frame,
                               getFreqAndModeReturn(Reply(toHexString(frame))))

\* getFreqAndMode (lines 166-190) on a 5-byte reply.
CodecFreqAndMode ==
    /\ ncalls = 0
    /\ \E reply \in [1..5 -> CodecBytes] :
          codecExchange("getFreqAndMode", Num(0), <<0, 0, 0, 0, 3>>, reply,
                        getFreqAndModeReturn(Reply(toHexString(reply))))

\* getReceiverStatus (lines 201-219) on a 1-byte reply.
CodecReceiverStatus ==
    /\ ncalls = 0
    /\ \E b \in 0..255 :
          codecExchange("getReceiverStatus", Num(0), <<0, 0, 0, 0, 231>>, <<b>>,
                        getReceiverStatusReturn(Reply(toHexString(<<b>>))))

\* getTransmitterStatus (lines 231-256) on a 1-byte reply.
CodecTransmitterStatus ==
    /\ ncalls = 0
    /\ \E b \in 0..255 :
          codecExchange("getTransmitterStatus", Num(0), <<0, 0, 0, 0, 247>>, <<b>>,
                        getTransmitterStatusReturn(Reply(toHexString(<<b>>))))

\* One operation is applied to the fresh session.
CodecNext ==
    \/ CodecRoundTrip
    \/ CodecFreqAndMode
    \/ CodecReceiverStatus
    \/ CodecTransmitterStatus

CodecSpec == Init /\ [][CodecNext]_vars

\* ------------------------------------------------------------------ claims

\* The exchanges that have started and have neither a reply nor a timeout.
InFlight == { c \in Calls : promise[c].kind = "pending" }

\* The reply length call c passed to execute.
declaredLength(c) ==
    LET i == CHOOSE i \in 1..Len(portWritten) : portWritten[i].by = c
    IN  portWritten[i].framing

hasExchange(c) == \E i \in 1..Len(portWritten) : portWritten[i].by = c

\* C1: at most one exchange is in flight at a time: execute neither writes
\* a frame nor reattaches the re-framer while an earlier exchange is pending.
C1_OneExchangeInFlight == Cardinality(InFlight) <= 1

\* C2: bytes of the reply of a timed-out exchange that arrive after the
\* timeout are in no chunk that settles a later exchange (stated for the
\* callers that start no exchange while another is pending).
C2_LateReplyDropped ==
    ~overlapped => \A c \in Calls : \A i \in 1..Len(chunk[c]) :
        ~(chunk[c][i].late /\ chunk[c][i].from # c)

\* C3: under LiveSpec every started exchange resolves, with false or with
\* the hex rendering of one chunk of the declared length, and its operation
\* returns.
C3_EveryExchangeResolves ==
    \A c \in Calls :
        (promise[c].kind = "pending") ~>
            /\ result[c].kind # "none"
            /\ \/ promise[c] = NoReply
               \/ /\ promise[c].kind = "hex"
                  /\ Len(chunk[c]) = declaredLength(c)
                  /\ promise[c].hex = toHexString([i \in 1..Len(chunk[c]) |-> chunk[c][i].v])

\* An exchange has timed out with fewer bytes delivered than its reply has.
C3_Witness ==
    \E c \in Calls :
        /\ promise[c] = NoReply
        /\ parserId = c
        /\ parserBuf # <<>>
        /\ Len(parserBuf) < parserLen
        /\ result[c].kind # "none"

\* C4: once the promise of an exchange has settled, neither it nor the
\* result of its operation changes again.
C4_ResolvesOnce ==
    [][\A c \in Calls :
          promise[c].kind \in {"false", "hex"} =>
              promise'[c] = promise[c] /\ result'[c] = result[c]]_vars

\* A chunk was handed to the listener of an exchange that had timed out.
C4_Witness == \E c \in dropped : promise[c] = NoReply

\* C5: when the exchange of getReceiverStatus or getTransmitterStatus times
\* out, the operation resolves to false.
C5_StatusTimeoutGivesFalse ==
    \A c \in Calls :
        op[c] \in {"getReceiverStatus", "getTransmitterStatus"} /\ promise[c] = NoReply
            => result[c].kind = "false"

rejectedFrequency(frequency) ==
    LET f == toNumber(frequency)
    IN  ~isValidRxFrequency(IF f.kind = "number" THEN f.n ELSE digitsValue(f.s))

\* C7: setFrequency with a frequency isValidRxFrequency rejects returns
\* false and leaves the command, the re-framer, the listeners, the timers
\* and the port as they were.
C7_InvalidFrequencyLeavesSession ==
    [][\A c \in Calls :
          (ncalls = c - 1 /\ ncalls' = c /\ op'[c] = "setFrequency"
              /\ rejectedFrequency(arg'[c]))
          => /\ result'[c].kind = "false"
             /\ UNCHANGED <<executableCommand, parserId, parserLen, parserBuf,
                            listeners, portWritten, promise, timer, wire>>]_vars

\* A rejected setFrequency was called while an exchange was pending.
C7_Witness ==
    \E c, d \in Calls :
        /\ op[c] = "setFrequency" /\ rejectedFrequency(arg[c])
        /\ result[c].kind = "false" /\ ~hasExchange(c)
        /\ d < c /\ promise[d].kind = "pending" /\ parserId = d

\* C8: setFrequency with a valid frequency never waits for a reply chunk
\* or for the timeout.
C8_FireAndForget ==
    \A c \in Calls : op[c] = "setFrequency" => promise[c].kind # "pending"

\* C9: when an exchange returns, the attached re-framer has the reply
\* length declared for that exchange.
C9_FramerMatchesOnReturn ==
    [][\A c \in Calls :
          promise[c].kind = "pending" /\ promise'[c].kind # "pending"
              => parserLen' = declaredLength(c)]_vars

\* The number isValidRxFrequency is given for a frequency argument.
frequencyNumber(frequency) ==
    IF frequency.kind = "number" THEN frequency.n ELSE digitsValue(frequency.s)

\* The i-th two-digit group, from the left, of n written with 8 digits.
group(n, i) ==
    CASE i = 1 -> (n \div 1000000) % 100
      [] i = 2 -> (n \div 10000) % 100
      [] i = 3 -> (n \div 100) % 100
      [] i = 4 -> n % 100

\* C10: the frame setFrequency(f) writes is 5 bytes, the BCD packing of the
\* four two-digit groups of f padded to 8 digits and the opcode 0x01;
\* [0x14,0x57,0x50,0x00,0x01] for 14575000.
C10_SetFrequencyFrame ==
    \A i \in 1..Len(portWritten) :
        LET w == portWritten[i]
            n == frequencyNumber(arg[w.by])
        IN  op[w.by] = "setFrequency" =>
               /\ Len(w.frame) = 5
               /\ w.frame[5] = 1
               /\ \A k \in 1..4 :
                     w.frame[k] = 16 * (group(n, k) \div 10) + (group(n, k) % 10)
               /\ n = 14575000 => w.frame = <<20, 87, 80, 0, 1>>

\* The frames of 14575000 and of 10000 (padded to 00010000) were written.
C10_Witness ==
    /\ \E i \in 1..Len(portWritten) : portWritten[i].frame = <<20, 87, 80, 0, 1>>
    /\ \E i \in 1..Len(portWritten) : portWritten[i].frame = <<0, 1, 0, 0, 1>>

\* The decimal digits of n, written with 8 digits.
digits8(n) ==
    [i \in 1..8 |->
        HexDigits[(CASE i = 1 -> n \div 10000000
                     [] i = 2 -> (n \div 1000000) % 10
                     [] i = 3 -> (n \div 100000) % 10
                     [] i = 4 -> (n \div 10000) % 10
                     [] i = 5 -> (n \div 1000) % 10
                     [] i = 6 -> (n \div 100) % 10
                     [] i = 7 -> (n \div 10) % 10
                     [] i = 8 -> n % 10) + 1]]

\* C11: for every f isValidRxFrequency accepts, the frame of setFrequency(f)
\* decoded as getFreqAndMode decodes a reply gives the frequency string f
\* padded to 8 digits.
C11_FrameRoundTrip ==
    \A c \in Calls :
        op[c] = "roundTrip" =>
            /\ isValidRxFrequency(arg[c].n)
            /\ Len(chunk[c]) = 5
            /\ result[c].kind = "FreqAndMode"
            /\ result[c].frequency = digits8(arg[c].n)

\* The frame of 10000 was read back as "00010000".
C11_Witness ==
    /\ op[1] = "roundTrip"
    /\ arg[1].n = 10000
    /\ result[1].kind = "FreqAndMode"
    /\ result[1].frequency = <<"0","0","0","1","0","0","0","0">>

\* The byte of the 1-byte chunk that settled the exchange of call c.
replyByte(c) == chunk[c][1].v

C13_TransmitterStatusDecode ==
    \A c \in Calls :
        op[c] = "getTransmitterStatus" /\ promise[c].kind = "hex" =>
            LET b == replyByte(c)
            IN  /\ Len(chunk[c]) = 1
                /\ result[c].kind = "TransmitterStatus"
                /\ result[c].pttActive = (b < 128)
                /\ result[c].highSWR = (b % 128 >= 64)
                /\ result[c].splitModeOn = (b % 64 >= 32)

\* The byte 0x5F (bit 7 clear, bit 6 set, bit 5 clear, bits 0-4 set) was
\* decoded.
C13_Witness ==
    /\ op[1] = "getTransmitterStatus"
    /\ promise[1].kind = "hex"
    /\ replyByte(1) = 95
    /\ result[1].pttActive /\ result[1].highSWR /\ ~result[1].splitModeOn

\* C14, as claimed: the byte 0b00000000 decodes to pttActive, highSWR and
\* splitModeOn all true, and 0b10000000 to pttActive false.
C14_ZeroByteAllTrue ==
    \A c \in Calls :
        op[c] = "getTransmitterStatus" /\ promise[c].kind = "hex" =>
            /\ replyByte(c) = 0 =>
                  result[c].pttActive /\ result[c].highSWR /\ result[c].splitModeOn
            /\ replyByte(c) = 128 => ~result[c].pttActive

\* C14, amended: the byte 0b00000000 decodes to pttActive true, highSWR
\* false and splitModeOn false, and 0b10000000 to pttActive false.
C14_ZeroByteDecode ==
    \A c \in Calls :
        op[c] = "getTransmitterStatus" /\ promise[c].kind = "hex" =>
            /\ replyByte(c) = 0 =>
                  result[c].pttActive /\ ~result[c].highSWR /\ ~result[c].splitModeOn
            /\ replyByte(c) = 128 => ~result[c].pttActive

\* The byte 0b00000000 was decoded.
C14_Witness ==
    /\ op[1] = "getTransmitterStatus"
    /\ promise[1].kind = "hex"
    /\ replyByte(1) = 0
    /\ result[1].kind = "TransmitterStatus"
    /\ result[1].pttActive

\* The k-th character, from 0, of the hex rendering of the chunk of call c,
\* as a number 0..15.
nibble(c, k) ==
    IF k % 2 = 0 THEN chunk[c][(k \div 2) + 1].v \div 16
    ELSE chunk[c][(k \div 2) + 1].v % 16

\* The integer parseInt reads from three or two hex characters given as
\* numbers: the decimal digits up to the first character above 9.
read3(a, b, d) ==
    IF a > 9 THEN NaN
    ELSE IF b > 9 THEN a
    ELSE IF d > 9 THEN 10 * a + b
    ELSE 100 * a + 10 * b + d

read2(a, b) == IF a > 9 THEN NaN ELSE IF b > 9 THEN a ELSE 10 * a + b

opcode(o) ==
    CASE o = "setFrequency" -> 1
      [] o = "getFreqAndMode" -> 3
      [] o = "getReceiverStatus" -> 231
      [] o = "getTransmitterStatus" -> 247

\* C16: every frame written is 5 bytes with the opcode of the operation
\* called as byte 4; for the read operations bytes 0-3 are zero and the
\* re-framer attached at the write has length 5 (0x03) or 1 (0xE7, 0xF7).
C16_FramesWritten ==
    \A i \in 1..Len(portWritten) :
        LET w == portWritten[i]
            o == op[w.by]
        IN  /\ Len(w.frame) = 5
            /\ w.frame[5] = opcode(o)
            /\ o # "setFrequency" =>
                  /\ \A k \in 1..4 : w.frame[k] = 0
                  /\ w.framing = IF o = "getFreqAndMode" THEN 5 ELSE 1

\* getFreqAndMode and getTransmitterStatus have both written their frame.
C16_Witness ==
    /\ \E i \in 1..Len(portWritten) : op[portWritten[i].by] = "getFreqAndMode"
    /\ \E i \in 1..Len(portWritten) : op[portWritten[i].by] = "getTransmitterStatus"

\* The reply length each operation passes to execute.
expectedLength(o) == IF o = "getFreqAndMode" THEN 5 ELSE 1

\* C17: in one call of execute the re-framer is reattached with the
\* expected length, then the frame is written, then the listener is armed,
\* with no data event in between; a byte answering the frame of call c
\* reaches the re-framer of c or of a later call, with the listener armed.
C17_ExecuteOrder ==
    [][\A c \in Calls :
          /\ (~hasExchange(c) /\ hasExchange(c)') =>
                LET w == portWritten'[Len(portWritten')]
                IN  /\ Len(portWritten') = Len(portWritten) + 1
                    /\ w.by = c
                    /\ w.framing = expectedLength(op'[c])
                    /\ parserLen' = expectedLength(op'[c])
                    /\ parserBuf' = <<>>
                    /\ listeners'[parserId'] = <<c>>
                    /\ wire' = wire
                    /\ chunk' = chunk
          /\ (wire # <<>> /\ wire' = Tail(wire) /\ Head(wire).from = c) =>
                hasExchange(c) /\ parserId >= c]_vars

\* An execute changed the re-framer's length, and its exchange was settled
\* by a chunk of its own reply.
C17_Witness ==
    \E i \in 2..Len(portWritten) :
        LET c == portWritten[i].by
        IN  /\ portWritten[i].framing # portWritten[i - 1].framing
            /\ promise[c].kind = "hex"
            /\ \A k \in 1..Len(chunk[c]) : chunk[c][k].from = c

\* The frame call c passes to execute.
passedFrame(c) ==
    IF op[c] = "setFrequency"
    THEN BufferFrom(setFrequencyFrame(frequencyString(arg[c])))
    ELSE <<0, 0, 0, 0, opcode(op[c])>>

\* C18: the frame an exchange writes is the frame passed to its own call of
\* execute, also when calls overlap.
C18_OwnFrameWritten ==
    \A i \in 1..Len(portWritten) :
        portWritten[i].frame = passedFrame(portWritten[i].by)

\* Two overlapping calls have written different frames.
C18_Witness ==
    /\ overlapped
    /\ Len(portWritten) = 2
    /\ portWritten[1].frame # portWritten[2].frame
    /\ executableCommand = portWritten[2].frame

\* The ByteLength objects.
Parsers == 0..MaxCalls

\* At most one listener is on the attached re-framer, and every listener is
\* on the re-framer its own call attached, so a superseded exchange's
\* listener is on a detached one.
listenersInPlace ==
    /\ Len(listeners[parserId]) <= 1
    /\ \A p \in Parsers : \A c \in SetOf(listeners[p]) : p = c

\* C19, as claimed: besides, a listener left by a timed-out exchange is on
\* a detached re-framer only.
C19_StaleListenersDetached ==
    /\ listenersInPlace
    /\ \A p \in Parsers : \A c \in SetOf(listeners[p]) :
          promise[c] = NoReply => p # parserId

\* C19, amended: at most one listener is on the attached re-framer and one
\* chunk settles at most one exchange; listeners of superseded exchanges
\* are on detached re-framers only, and the timeout of an exchange leaves
\* its listener where it is.
C19_ListenersPerFramer ==
    /\ [] listenersInPlace
    /\ [][/\ Cardinality({c \in Calls : promise[c].kind # "hex"
                                         /\ promise'[c].kind = "hex"}) <= 1
          /\ \A c \in Calls :
                promise[c].kind = "pending" /\ promise'[c] = NoReply
                    => listeners' = listeners]_vars

\* A superseded exchange has its listener on a detached re-framer and a
\* timed-out exchange has its listener on the attached one.
C19_Witness ==
    \E c, d \in Calls :
        /\ c # parserId /\ listeners[c] = <<c>>
        /\ d = parserId /\ listeners[d] = <<d>> /\ promise[d] = NoReply

\* C20: setFrequency with an accepted frequency resolves to the frequency
\* padded to 8 digits, whether its exchange ended with a reply or with the
\* timeout; never to false.
C20_SetFrequencyResult ==
    \A c \in Calls :
        (op[c] = "setFrequency" /\ ~rejectedFrequency(arg[c])
             /\ promise[c].kind \in {"false", "hex"})
        => /\ result[c].kind = "string"
           /\ result[c].value = digits8(frequencyNumber(arg[c]))

\* One accepted setFrequency ended with a reply and another with the
\* timeout, both with the padded frequency as result.
C20_Witness ==
    \E c, d \in Calls :
        /\ op[c] = "setFrequency" /\ promise[c].kind = "hex"
        /\ op[d] = "setFrequency" /\ promise[d] = NoReply
        /\ result[c].kind = "string" /\ result[d].kind = "string"
        /\ result[d].value = <<"0","0","0","1","0","0","0","0">>

====
